---- MODULE Spec2Model ----
(***************************************************************************)
(* PlivoWebSocketServer (plivo-stream-sdk-node): the connection lifecycle  *)
(* and event-dispatch engine.                                              *)
(*                                                                         *)
(* One state machine: the server object (listener registries, isStarted,   *)
(* the metadata WeakMap) and, per WebSocket, the closure state of the      *)
(* 'connection' handler (messageBuffer, isReady, the position of the       *)
(* `for ... await cb(ws, request)` loop).  Every synchronous run of a      *)
(* handler is one action; the only suspension point of the SDK is the      *)
(* `await` on a connection callback.                                       *)
(*                                                                         *)
(* Listeners are application code.  What the model keeps of them is, per   *)
(* invocation, whether the call returned or threw (the set T of an action  *)
(* names the listeners that throw while that handler runs) and what the    *)
(* metadata accessors would return from inside the call.  Every invocation *)
(* is appended to trace[c], the observable history of connection c.        *)
(***************************************************************************)
EXTENDS Naturals, Sequences, FiniteSets

\* ---------------------------------------------------------------- bounds
\* how many callbacks are registered in total, over the eight registries
MaxCallbacks == 3
\* how many messages the peer sends on one connection
MaxMessages == 3
\* how many action methods (playAudio, checkpoint, clearAudio) the
\* application calls on one connection
MaxCommands == 2
\* how many errors the transport reports on one connection
MaxErrors == 1
\* how many messages the peer sends on each of two interleaved connections
MaxInterleaved == 1
\* how many times the application calls start()
MaxStarts == 2
\* how many bytes of raw audio one call of playAudio is handed
MaxBytes == 4
\* how many listener calls see their asynchronous work finish on one
\* connection
MaxCompletions == 1
\* the sockets that may connect
Conns == {"ws1"}
\* every socket the transport knows
Sockets == {"ws1", "ws2"}

\* ------------------------------------------------------ program constants
PolicyViolation == 1008
InternalError == 1011

Undefined == "undefined"

EventKinds == {"start", "media", "dtmf", "playedStream", "clearedAudio"}

VARIABLES
    \* the server object
    isStarted,
    validateSignatureEnabled,
    authToken,
    \* the 'connection' handlers start() has installed on the server
    handlers,
    \* the calls of start(), each with the error it threw ("" when it returned)
    starts,
    connectionCallbacks,
    startCallbacks,
    mediaCallbacks,
    dtmfCallbacks,
    playedStreamCallbacks,
    clearedAudioCallbacks,
    errorCallbacks,
    closeCallbacks,
    connectionMetadata,
    \* per socket: the transport (inbox: every message the peer has sent)
    readyState,
    request,
    inbox,
    \* per socket: the closure of the 'connection' handler
    pc,
    cbIndex,
    messageBuffer,
    isReady,
    \* per socket: what ws.send has written, in order
    sent,
    \* observation
    trace,
    uncaught,
    \* per socket: the action methods the application has called, each with
    \* the error it threw ("" when it returned)
    commands,
    \* per socket: the raw audio the application has handed to playAudio
    audio,
    \* per socket: the event listener calls (positions of trace) whose
    \* asynchronous work has finished
    completed

registries == <<connectionCallbacks, startCallbacks, mediaCallbacks, dtmfCallbacks,
                playedStreamCallbacks, clearedAudioCallbacks, errorCallbacks,
                closeCallbacks>>
server == <<isStarted, validateSignatureEnabled, authToken, handlers, starts>>
socket == <<readyState, request, inbox>>
closure == <<pc, cbIndex, messageBuffer, isReady>>
outbound == <<sent, commands, audio>>
vars == <<server, registries, connectionMetadata, socket, closure, trace, uncaught,
          outbound, completed>>


\* ------------------------------------------------------- inbound messages
\* The identifiers a `start` event carries (StartEventDataSchema, extra_headers).
StartA == [streamId |-> "stream-A", accountId |-> "account-A",
           callId |-> "call-A", extra_headers |-> "headers-A"]
StartB == [streamId |-> "stream-B", accountId |-> "account-B",
           callId |-> "call-B", extra_headers |-> "headers-B"]
StartPayloads == {StartA, StartB}

\* One raw transport message, by what the SDK's code can tell apart:
\*   syntax  "malformed": JSON.parse throws; "null": it parses to null;
\*           "object": it parses to an object
\*   event   the discriminator: an event kind, "bogus" (unrecognised) or
\*           "absent" (no `event` field)
\*   valid   whether the zod schema of that kind accepts the object
\*   start   the identifiers carried (read by the `start` case only)
Data(syntax, event, valid, start) ==
    [syntax |-> syntax, event |-> event, valid |-> valid, start |-> start]

WellFormed == {Data("object", "start", TRUE, p) : p \in StartPayloads}
              \cup {Data("object", k, TRUE, StartA) : k \in EventKinds}
SchemaViolations == {Data("object", k, FALSE, StartA) : k \in EventKinds}
UnknownKind == {Data("object", "bogus", FALSE, StartA),
                Data("object", "absent", FALSE, StartA)}
NotAnObject == {Data("null", "absent", FALSE, StartA),
                Data("malformed", "absent", FALSE, StartA)}
Malformed == SchemaViolations \cup UnknownKind \cup NotAnObject
Inbound == WellFormed \cup Malformed

\* the message as the handler sees it: the data and its receipt number (the
\* peer's n-th message on the connection)
Frame(n, data) == [n |-> n, syntax |-> data.syntax, event |-> data.event,
                   valid |-> data.valid, start |-> data.start]

\* ------------------------------------------------------------ the trace
\* One observable step of connection c: a listener invocation (op is the
\* registry, cb the callback, n the receipt number of the message being
\* dispatched or 0, err the error passed to an error listener, threw whether
\* the call threw, seen what getStreamId/getAccountId/getCallId/getHeaders
\* return from inside the call), the settling of an awaited connection
\* callback (op "settled", threw = rejected) or a close issued by the SDK
\* (op "ws.close", code).  Two entries are notes of the SDK's own steps: the
\* receipt of the peer's n-th message by ws.on('message') (op "message") and
\* a call of handleIncomingEvent with it (op "dispatch").
Call(op, cb, n, err, threw, seen) ==
    [op |-> op, cb |-> cb, n |-> n, err |-> err, code |-> 0,
     threw |-> threw, seen |-> seen]

NoMetadata == [streamId |-> Undefined, accountId |-> Undefined,
               callId |-> Undefined, headers |-> Undefined]

\* ws.close(code, reason) as recorded in the trace
CloseCall(code) ==
    [op |-> "ws.close", cb |-> 0, n |-> 0, err |-> "", code |-> code,
     threw |-> FALSE, seen |-> NoMetadata]


\* ------------------------------------------------------- the dispatcher
\* the registry that the `switch (data.event)` case of a kind iterates
Registry(kind) ==
    CASE kind = "start" -> startCallbacks
      [] kind = "media" -> mediaCallbacks
      [] kind = "dtmf" -> dtmfCallbacks
      [] kind = "playedStream" -> playedStreamCallbacks
      [] kind = "clearedAudio" -> clearedAudioCallbacks

\* The listeners an action may find throwing: the registered event, error
\* and close callbacks, each named <<registry, callback>>.
Throwable ==
    UNION {{<<k, Registry(k)[i]>> : i \in 1..Len(Registry(k))} : k \in EventKinds}
    \cup {<<"error", errorCallbacks[i]>> : i \in 1..Len(errorCallbacks)}
    \cup {<<"close", closeCallbacks[i]>> : i \in 1..Len(closeCallbacks)}

\* What a synchronous piece of code did: the listener calls it made, in
\* order, the metadata it left, and whether it ended by throwing.
Outcome(metadata, calls, threw) ==
    [metadata |-> metadata, calls |-> calls, threw |-> threw]

\* b ran after a returned
Then(a, b) == Outcome(b.metadata, a.calls \o b.calls, b.threw)

\* the position of the first callback of the array that throws, 0 if none
FirstThrow(callbacks, op, T) ==
    IF \E i \in 1..Len(callbacks) : <<op, callbacks[i]>> \in T
    THEN CHOOSE i \in 1..Len(callbacks) :
            /\ <<op, callbacks[i]>> \in T
            /\ \A j \in 1..(i - 1) : <<op, callbacks[j]>> \notin T
    ELSE 0

\* the calls of a loop over the array that ends after position last
CallsUpTo(last, callbacks, op, n, err, seen, T) ==
    [i \in 1..last |-> Call(op, callbacks[i], n, err, <<op, callbacks[i]>> \in T, seen)]

\* `callbacks.forEach((cb) => cb(...))` with no try/catch around the call:
\* the callbacks run in array order and the first one that throws ends the
\* loop, the exception leaving forEach.
ForEachUntil(first, callbacks, op, n, err, seen, T) ==
    IF first = 0
    THEN Outcome(seen, CallsUpTo(Len(callbacks), callbacks, op, n, err, seen, T), FALSE)
    ELSE Outcome(seen, CallsUpTo(first, callbacks, op, n, err, seen, T), TRUE)

forEach(callbacks, op, n, err, seen, T) ==
    ForEachUntil(FirstThrow(callbacks, op, T), callbacks, op, n, err, seen, T)

\* (mutant) the error listeners of the setup-failure path are called without
\* a try/catch of their own: the first throw ends the loop
forEachUnguarded(callbacks, op, n, err, seen, T) ==
    Outcome(seen, forEach(callbacks, op, n, err, seen, T).calls, FALSE)

\* `errorCallbacks.forEach((cb) => { try { cb(err, ws) } catch {} })` of the
\* setup-failure path: every callback runs, a throw is ignored.
forEachIgnoringErrors(callbacks, op, n, err, seen, T) ==
    Outcome(seen, CallsUpTo(Len(callbacks), callbacks, op, n, err, seen, T), FALSE)

\* handleError(error, ws): the error listeners if there are any, else
\* console.error.  threw: an error listener threw, and handleError with it.
handleError(err, n, metadata, T) ==
    IF Len(errorCallbacks) > 0
    THEN forEach(errorCallbacks, "error", n, err, metadata, T)
    ELSE Outcome(metadata, <<>>, FALSE)

\* the metadata a validated `start` event writes
StartMetadata(data) ==
    [streamId |-> data.start.streamId, accountId |-> data.start.accountId,
     callId |-> data.start.callId, headers |-> data.start.extra_headers]

\* (mutant) the case of every kind stores the identifiers the event carries
WrittenByEveryKind(data, metadata) == StartMetadata(data)

\* the metadata after the case of a validated event: `case 'start'` writes
\* the four fields and stores the record, the other cases write nothing
Written(data, metadata) ==
    IF data.event = "start" THEN StartMetadata(data) ELSE metadata

\* The `try` block of handleIncomingEvent: the switch on data.event.
\* metadata is the record the connection holds when the call begins.
DispatchSwitch(data, metadata, T) ==
    IF data.syntax = "null"
    THEN \* `data.event` on null: TypeError
         Outcome(metadata, <<>>, TRUE)
    ELSE IF data.event \in EventKinds
    THEN IF ~data.valid
         THEN \* Schema.parse(data) throws
              Outcome(metadata, <<>>, TRUE)
         ELSE forEach(Registry(data.event), data.event, data.n, "",
                      Written(data, metadata), T)
    ELSE handleError("Unknown event type", data.n, metadata, T)

\* The `catch` of handleIncomingEvent around the switch s:
\* handleError("Failed to handle event"), whose own exception leaves
\* handleIncomingEvent.
Caught(s, data, T) ==
    IF s.threw
    THEN Then(s, handleError("Failed to handle event", data.n, s.metadata, T))
    ELSE s

\* handleIncomingEvent(data, ws); the trace notes the call itself (op
\* "dispatch") ahead of the listener calls it makes
handleIncomingEvent(data, metadata, T) ==
    Then(Outcome(metadata, <<Call("dispatch", 0, data.n, "", FALSE, metadata)>>, FALSE),
         Caught(DispatchSwitch(data, metadata, T), data, T))

\* `for (const msg of messageBuffer) this.handleIncomingEvent(msg, ws)`:
\* the buffered messages in array order, until one call throws.
RECURSIVE Replay(_, _, _)
RECURSIVE ReplayRest(_, _, _)
ReplayRest(h, rest, T) ==
    IF h.threw THEN h ELSE Then(h, Replay(rest, h.metadata, T))

Replay(buffer, metadata, T) ==
    IF buffer = <<>>
    THEN Outcome(metadata, <<>>, FALSE)
    ELSE ReplayRest(handleIncomingEvent(Head(buffer), metadata, T), Tail(buffer), T)

\* (mutant) the nonce header is not required, and a verifier that throws is
\* taken for one that accepts
validateWithoutNonce(req) ==
    req.signature /\ req.verifier # "false"

\* validateConnectionSignature(request): both headers present and the
\* verifier returns true (a throw of the verifier is caught: false).
validateConnectionSignature(req) ==
    IF ~req.signature \/ ~req.nonce
    THEN FALSE
    ELSE req.verifier = "true"

Requests == [signature : BOOLEAN, nonce : BOOLEAN, verifier : {"true", "false", "throws"}]

\* ws.close(code): an open socket starts closing, any other is left as it is
AfterClose(state) == IF state = "OPEN" THEN "CLOSING" ELSE state

\* the metadata accessors: getStreamId, getAccountId, getCallId, getHeaders
Metadata(c) == IF c \in DOMAIN connectionMetadata THEN connectionMetadata[c] ELSE NoMetadata
getStreamId(c) == Metadata(c).streamId
getAccountId(c) == Metadata(c).accountId
getCallId(c) == Metadata(c).callId
getHeaders(c) == Metadata(c).headers

\* ------------------------------------------------------------- the state
\* (mutant) the constructor accepts every combination of options
constructorUnchecked(validateSignature, token) == TRUE

\* constructor(options): whether it returns an instance; it throws when
\* validateSignature is set and authToken is not.
constructor(validateSignature, token) == ~(validateSignature /\ ~token)

\* The state after `new PlivoWebSocketServer(options)` returned.
Init ==
    /\ isStarted = FALSE
    /\ handlers = 0
    /\ starts = <<>>
    /\ validateSignatureEnabled \in BOOLEAN
    /\ authToken \in BOOLEAN
    /\ constructor(validateSignatureEnabled, authToken)
    /\ connectionCallbacks = <<>>
    /\ startCallbacks = <<>>
    /\ mediaCallbacks = <<>>
    /\ dtmfCallbacks = <<>>
    /\ playedStreamCallbacks = <<>>
    /\ clearedAudioCallbacks = <<>>
    /\ errorCallbacks = <<>>
    /\ closeCallbacks = <<>>
    /\ connectionMetadata = [c \in {} |-> NoMetadata]
    /\ readyState = [c \in Sockets |-> "OPEN"]
    /\ request = [c \in Sockets |-> [signature |-> FALSE, nonce |-> FALSE, verifier |-> "false"]]
    /\ inbox = [c \in Sockets |-> <<>>]
    /\ pc = [c \in Sockets |-> "idle"]
    /\ cbIndex = [c \in Sockets |-> 0]
    /\ messageBuffer = [c \in Sockets |-> <<>>]
    /\ isReady = [c \in Sockets |-> FALSE]
    /\ trace = [c \in Sockets |-> <<>>]
    /\ uncaught = FALSE
    /\ sent = [c \in Sockets |-> <<>>]
    /\ commands = [c \in Sockets |-> <<>>]
    /\ audio = [c \in Sockets |-> <<>>]
    /\ completed = [c \in Sockets |-> {}]

\* ---------------------------------------------------------- registration
Registered ==
    Len(connectionCallbacks) + Len(startCallbacks) + Len(mediaCallbacks)
    + Len(dtmfCallbacks) + Len(playedStreamCallbacks) + Len(clearedAudioCallbacks)
    + Len(errorCallbacks) + Len(closeCallbacks)

\* A callback is an opaque function; the model names it by the order of its
\* registration in its registry.
NewCallback(callbacks) == Len(callbacks) + 1

\* `this.xCallbacks.push(callback)`
push(callbacks, callback) == Append(callbacks, callback)

\* Registration happens before start(), as start()'s documentation asks
\* ("Call this after registering all event handlers").
MayRegister == ~isStarted /\ ~uncaught /\ Registered < MaxCallbacks

onConnection ==
    /\ MayRegister
    /\ connectionCallbacks' = push(connectionCallbacks, NewCallback(connectionCallbacks))
    /\ UNCHANGED <<server, startCallbacks, mediaCallbacks, dtmfCallbacks,
                   playedStreamCallbacks, clearedAudioCallbacks, errorCallbacks,
                   closeCallbacks, connectionMetadata, socket, closure, trace, uncaught, outbound,
                   completed>>

onStart ==
    /\ MayRegister
    /\ startCallbacks' = push(startCallbacks, NewCallback(startCallbacks))
    /\ UNCHANGED <<server, connectionCallbacks, mediaCallbacks, dtmfCallbacks,
                   playedStreamCallbacks, clearedAudioCallbacks, errorCallbacks,
                   closeCallbacks, connectionMetadata, socket, closure, trace, uncaught, outbound,
                   completed>>

onMedia ==
    /\ MayRegister
    /\ mediaCallbacks' = push(mediaCallbacks, NewCallback(mediaCallbacks))
    /\ UNCHANGED <<server, connectionCallbacks, startCallbacks, dtmfCallbacks,
                   playedStreamCallbacks, clearedAudioCallbacks, errorCallbacks,
                   closeCallbacks, connectionMetadata, socket, closure, trace, uncaught, outbound,
                   completed>>

onDtmf ==
    /\ MayRegister
    /\ dtmfCallbacks' = push(dtmfCallbacks, NewCallback(dtmfCallbacks))
    /\ UNCHANGED <<server, connectionCallbacks, startCallbacks, mediaCallbacks,
                   playedStreamCallbacks, clearedAudioCallbacks, errorCallbacks,
                   closeCallbacks, connectionMetadata, socket, closure, trace, uncaught, outbound,
                   completed>>

onPlayedStream ==
    /\ MayRegister
    /\ playedStreamCallbacks' = push(playedStreamCallbacks, NewCallback(playedStreamCallbacks))
    /\ UNCHANGED <<server, connectionCallbacks, startCallbacks, mediaCallbacks,
                   dtmfCallbacks, clearedAudioCallbacks, errorCallbacks,
                   closeCallbacks, connectionMetadata, socket, closure, trace, uncaught, outbound,
                   completed>>

onClearedAudio ==
    /\ MayRegister
    /\ clearedAudioCallbacks' = push(clearedAudioCallbacks, NewCallback(clearedAudioCallbacks))
    /\ UNCHANGED <<server, connectionCallbacks, startCallbacks, mediaCallbacks,
                   dtmfCallbacks, playedStreamCallbacks, errorCallbacks,
                   closeCallbacks, connectionMetadata, socket, closure, trace, uncaught, outbound,
                   completed>>

onError ==
    /\ MayRegister
    /\ errorCallbacks' = push(errorCallbacks, NewCallback(errorCallbacks))
    /\ UNCHANGED <<server, connectionCallbacks, startCallbacks, mediaCallbacks,
                   dtmfCallbacks, playedStreamCallbacks, clearedAudioCallbacks,
                   closeCallbacks, connectionMetadata, socket, closure, trace, uncaught, outbound,
                   completed>>

onClose ==
    /\ MayRegister
    /\ closeCallbacks' = push(closeCallbacks, NewCallback(closeCallbacks))
    /\ UNCHANGED <<server, connectionCallbacks, startCallbacks, mediaCallbacks,
                   dtmfCallbacks, playedStreamCallbacks, clearedAudioCallbacks,
                   errorCallbacks, connectionMetadata, socket, closure, trace, uncaught, outbound,
                   completed>>

AlreadyStarted == "PlivoWebSocketServer is already started"

\* (mutant) start() does not look at isStarted
StartUnguarded(started, installed) ==
    [isStarted |-> TRUE, handlers |-> installed + 1, error |-> ""]

\* start(): a call on a started server throws before it touches anything;
\* the first call sets isStarted and setupConnectionHandler installs the
\* 'connection' handler.
Start(started, installed) ==
    IF started
    THEN [isStarted |-> started, handlers |-> installed, error |-> AlreadyStarted]
    ELSE [isStarted |-> TRUE, handlers |-> installed + 1, error |-> ""]

\* the state a call r of start() leaves
CommitStart(r) ==
    /\ isStarted' = r.isStarted
    /\ handlers' = r.handlers
    /\ starts' = Append(starts, r.error)

\* the application's call of start() after it registered its listeners
start ==
    /\ ~uncaught
    /\ ~isStarted
    /\ CommitStart(Start(isStarted, handlers))
    /\ UNCHANGED <<validateSignatureEnabled, authToken, registries, connectionMetadata,
                   socket, closure, trace, uncaught, outbound, completed>>

\* a further call of start(), at any later time
startAgain ==
    /\ ~uncaught
    /\ isStarted
    /\ Len(starts) < MaxStarts
    /\ CommitStart(Start(isStarted, handlers))
    /\ UNCHANGED <<validateSignatureEnabled, authToken, registries, connectionMetadata,
                   socket, closure, trace, uncaught, outbound, completed>>


\* ------------------------------------------------- the 'connection' handler
\* (mutant) one metadata record for the whole server instead of one for
\* each socket
SetMetadataOfServer(c, value) ==
    [x \in DOMAIN connectionMetadata \cup {c} |-> value]

\* connectionMetadata.set(ws, value)
SetMetadata(c, value) ==
    [x \in DOMAIN connectionMetadata \cup {c} |->
        IF x = c THEN value ELSE connectionMetadata[x]]

\* Where a run of the handler left the connection: the position of the
\* handler, the callbacks completed, isReady, and the Outcome of the run.
Left(at, i, ready, closes, o) ==
    [pc |-> at, cbIndex |-> i, isReady |-> ready, closes |-> closes,
     metadata |-> o.metadata, calls |-> o.calls]

\* The `catch` of the handler: every error listener is told, each call in
\* its own try/catch; ws.close(1011, 'Connection setup failed') follows.
SetupFailed(err, metadata, T) ==
    forEachIgnoringErrors(errorCallbacks, "error", 0, err, metadata, T)

\* the end of the `try`: isReady is set and the buffer replayed (r); an
\* exception of the replay lands in the `catch`
Replayed(i, r, T) ==
    IF r.threw
    THEN Left("failed", i, TRUE, TRUE,
              Then(r, SetupFailed("Error listener threw", r.metadata, T)))
    ELSE Left("done", i, TRUE, FALSE, r)

\* (mutant) the remaining connection callbacks are all called at once and
\* only the last one is awaited
RunLoopWithoutAwait(i, metadata, buffer, T) ==
    IF i < Len(connectionCallbacks)
    THEN Left("await", Len(connectionCallbacks), FALSE, FALSE,
              Outcome(metadata,
                      [k \in 1..(Len(connectionCallbacks) - i) |->
                          Call("connection", connectionCallbacks[i + k], 0, "", FALSE, metadata)],
                      FALSE))
    ELSE Replayed(i, Replay(buffer, metadata, T), T)

\* The `try` of the handler from the point where i connection callbacks
\* have completed: call the next one and suspend on its promise, or, when
\* none is left, set isReady and replay the buffer.
RunLoop(i, metadata, buffer, T) ==
    IF i < Len(connectionCallbacks)
    THEN Left("await", i + 1, FALSE, FALSE,
              Outcome(metadata,
                      <<Call("connection", connectionCallbacks[i + 1], 0, "", FALSE, metadata)>>,
                      FALSE))
    ELSE Replayed(i, Replay(buffer, metadata, T), T)

\* (mutant) a rejection of the awaited callback is ignored
ResumeIgnoringRejection(resolved, i, metadata, buffer, T) ==
    RunLoop(i, metadata, buffer, T)

\* The handler resumed after `await cb(ws, request)`: the promise resolved
\* and the loop goes on, or it rejected and the `catch` runs.
Resume(resolved, i, metadata, buffer, T) ==
    IF resolved
    THEN RunLoop(i, metadata, buffer, T)
    ELSE Left("failed", i, FALSE, TRUE,
              SetupFailed("Connection callback failed", metadata, T))

\* the awaited promise settling, as the trace records it
Settle(cb, resolved, seen) ==
    [op |-> "settled", cb |-> cb, n |-> 0, err |-> "", code |-> 0,
     threw |-> ~resolved, seen |-> seen]

\* the calls of a run r, with the close of the `catch` when it ran
Calls(r) == IF r.closes THEN r.calls \o <<CloseCall(InternalError)>> ELSE r.calls

\* the state a run r of the handler leaves, its calls added to the trace
\* after `before`
Commit(c, before, r) ==
    /\ connectionMetadata' = SetMetadata(c, r.metadata)
    /\ isReady' = [isReady EXCEPT ![c] = r.isReady]
    /\ pc' = [pc EXCEPT ![c] = r.pc]
    /\ cbIndex' = [cbIndex EXCEPT ![c] = r.cbIndex]
    /\ trace' = [trace EXCEPT ![c] = before \o Calls(r)]
    /\ readyState' = [readyState EXCEPT ![c] =
                         IF r.closes THEN AfterClose(readyState[c]) ELSE readyState[c]]

\* `ws.close(1008, 'Signature validation failed'); return`
Reject(c) ==
    /\ trace' = [trace EXCEPT ![c] = <<CloseCall(PolicyViolation)>>]
    /\ readyState' = [readyState EXCEPT ![c] = AfterClose(readyState[c])]
    /\ pc' = [pc EXCEPT ![c] = "rejected"]
    /\ UNCHANGED <<connectionMetadata, cbIndex, isReady>>

\* A socket connects: the wss 'connection' event, up to the first `await`
\* (or to the end of the handler when no connection callback is registered).
\* The socket is open when the event fires.
Connection(c, req) ==
    /\ ~uncaught
    /\ isStarted
    /\ pc[c] = "idle"
    /\ readyState[c] = "OPEN"
    /\ request' = [request EXCEPT ![c] = req]
    /\ IF validateSignatureEnabled /\ ~validateConnectionSignature(req)
       THEN Reject(c)
       ELSE Commit(c, <<>>, RunLoop(0, NoMetadata, <<>>, {}))
    /\ UNCHANGED <<server, registries, inbox, messageBuffer, uncaught, outbound, completed>>

\* The promise of the awaited connection callback settles and the handler
\* runs on to its next `await` or to its end.
Settled(c, resolved, T) ==
    /\ ~uncaught
    /\ pc[c] = "await"
    /\ Commit(c, Append(trace[c],
                        Settle(connectionCallbacks[cbIndex[c]], resolved, Metadata(c))),
              Resume(resolved, cbIndex[c], Metadata(c), messageBuffer[c], T))
    /\ UNCHANGED <<server, registries, request, inbox, messageBuffer, uncaught, outbound,
            completed>>

\* the handlers of ws 'message', 'error' and 'close' are attached
Attached(c) == pc[c] \in {"await", "done", "failed"}

\* what ws.on('message') did with the message data: the Outcome o and the
\* buffer it left; the trace notes the receipt (op "message") ahead of the
\* calls the handler made
Handled(data, o, buffer) ==
    [metadata |-> o.metadata,
     calls |-> <<Call("message", 0, data.n, "", FALSE, o.metadata)>> \o o.calls,
     threw |-> o.threw, buffer |-> buffer]

\* the `catch` of ws.on('message') around the dispatch h:
\* handleError("Failed to parse message"), whose own exception leaves the
\* handler uncaught
ParseCaught(h, data, T) ==
    IF h.threw
    THEN Then(h, handleError("Failed to parse message", data.n, h.metadata, T))
    ELSE h

\* The event listener calls of c whose asynchronous work is still running:
\* a listener may be an async function, `cb(event, ws)` then returns a
\* promise that forEach drops, and the work goes on after the call returned.
Pending(c) ==
    {i \in DOMAIN trace[c] :
        trace[c][i].op \in EventKinds /\ ~trace[c][i].threw /\ i \notin completed[c]}

\* (mutant) a message is dispatched only once the asynchronous work of every
\* earlier listener call has finished
DispatchesWhenSettled(ready) == ready /\ \A c \in Sockets : Pending(c) = {}

\* (mutant) isReady is one flag of the server instead of a variable of each
\* connection's closure: a message is dispatched only when no connection is
\* waiting for its connection listeners
DispatchesWhenAllReady(ready) == ready /\ \A c \in Sockets : pc[c] # "await"

\* (mutant) the handler dispatches whether or not the connection is ready
DispatchesUngated(ready) == TRUE

\* `if (isReady) handleIncomingEvent(parsed, ws) else messageBuffer.push(parsed)`
Dispatches(ready) == ready

\* ws.on('message'): JSON.parse, then dispatch or buffer; any exception of
\* either goes to the `catch`.
OnMessage(data, ready, metadata, buffer, T) ==
    IF data.syntax = "malformed"
    THEN Handled(data, ParseCaught(Outcome(metadata, <<>>, TRUE), data, T), buffer)
    ELSE IF Dispatches(ready)
    THEN Handled(data, ParseCaught(handleIncomingEvent(data, metadata, T), data, T), buffer)
    ELSE Handled(data, Outcome(metadata, <<>>, FALSE), Append(buffer, data))

\* the state ws.on('message') leaves
CommitMessage(c, r) ==
    /\ connectionMetadata' = SetMetadata(c, r.metadata)
    /\ messageBuffer' = [messageBuffer EXCEPT ![c] = r.buffer]
    /\ trace' = [trace EXCEPT ![c] = trace[c] \o r.calls]
    /\ uncaught' = r.threw

\* The peer's next message arrives on a socket whose handlers are attached.
Message(c, data, T) ==
    /\ ~uncaught
    /\ Attached(c)
    /\ readyState[c] \in {"OPEN", "CLOSING"}
    /\ Len(inbox[c]) < MaxMessages
    /\ CommitMessage(c, OnMessage(Frame(Len(inbox[c]) + 1, data), isReady[c], Metadata(c),
                                  messageBuffer[c], T))
    /\ inbox' = [inbox EXCEPT ![c] = Append(inbox[c], Frame(Len(inbox[c]) + 1, data))]
    /\ UNCHANGED <<server, registries, readyState, request, pc, cbIndex, isReady,
                   outbound, completed>>

\* A message on a socket the SDK closed at accept: no handler was attached.
Unhandled(c, data) ==
    /\ ~uncaught
    /\ pc[c] = "rejected"
    /\ readyState[c] \in {"OPEN", "CLOSING"}
    /\ Len(inbox[c]) < MaxMessages
    /\ inbox' = [inbox EXCEPT ![c] = Append(inbox[c], Frame(Len(inbox[c]) + 1, data))]
    /\ UNCHANGED <<server, registries, connectionMetadata, readyState, request,
                   closure, trace, uncaught, outbound, completed>>

\* ws.on('close'): `closeCallbacks.forEach((cb) => cb(ws))`, when the
\* handler is attached
OnClose(attached, metadata, T) ==
    IF attached
    THEN forEach(closeCallbacks, "close", 0, "", metadata, T)
    ELSE Outcome(metadata, <<>>, FALSE)

CommitClose(c, r) ==
    /\ trace' = [trace EXCEPT ![c] = trace[c] \o r.calls]
    /\ uncaught' = r.threw

\* The transport reports the socket closed.
SocketClose(c, T) ==
    /\ ~uncaught
    /\ pc[c] # "idle"
    /\ readyState[c] # "CLOSED"
    /\ readyState' = [readyState EXCEPT ![c] = "CLOSED"]
    /\ CommitClose(c, OnClose(Attached(c), Metadata(c), T))
    /\ UNCHANGED <<server, registries, connectionMetadata, request, inbox, closure,
                   outbound, completed>>

\* a request without signature headers, as a peer sends it to a server that
\* does not validate signatures
PlainRequest == [signature |-> FALSE, nonce |-> FALSE, verifier |-> "false"]

\* a request whose signature headers verify
SignedRequest == [signature |-> TRUE, nonce |-> TRUE, verifier |-> "true"]

\* ws.on('error'): handleError('WebSocket error occurred'); the trace notes
\* the transport's event (op "ws.error") ahead of the listener calls
OnError(metadata, T) ==
    Then(Outcome(metadata, <<Call("ws.error", 0, 0, "", FALSE, metadata)>>, FALSE),
         handleError("WebSocket error occurred", 0, metadata, T))

CommitError(c, r) ==
    /\ trace' = [trace EXCEPT ![c] = trace[c] \o r.calls]
    /\ uncaught' = r.threw

\* The transport reports an error on a socket whose handlers are attached.
SocketError(c, T) ==
    /\ ~uncaught
    /\ Attached(c)
    /\ readyState[c] # "CLOSED"
    /\ Cardinality({i \in DOMAIN trace[c] : trace[c][i].op = "ws.error"}) < MaxErrors
    /\ CommitError(c, OnError(Metadata(c), T))
    /\ UNCHANGED <<server, registries, connectionMetadata, socket, closure, outbound,
            completed>>

\* An exception that left a handler of the SDK uncaught ends the process
\* (what Node does with an exception no one catches): every socket the
\* process holds is closed with it.
Exit ==
    /\ uncaught
    /\ \E c \in Sockets : pc[c] # "idle" /\ readyState[c] # "CLOSED"
    /\ readyState' = [c \in Sockets |->
                         IF pc[c] # "idle" THEN "CLOSED" ELSE readyState[c]]
    /\ UNCHANGED <<server, registries, connectionMetadata, request, inbox, closure,
                   trace, uncaught, outbound, completed>>

\* The asynchronous work that the event listener call at position i of the
\* trace of c started comes to its end.  Nothing in the SDK waits for it.
ListenerCompletes(c, i) ==
    /\ ~uncaught
    /\ i \in Pending(c)
    /\ Cardinality(completed[c]) < MaxCompletions
    /\ completed' = [completed EXCEPT ![c] = completed[c] \cup {i}]
    /\ UNCHANGED <<server, registries, connectionMetadata, socket, closure, trace,
                   uncaught, outbound>>

\* ------------------------------------------------------ the action methods
\* `payload.toString('base64')`: the base64 digits (0..63) of the bytes,
\* three bytes to four digits, the last group padded with '=' (Pad)
Pad == 64

Group(b) ==
    IF Len(b) = 3
    THEN <<b[1] \div 4, (b[1] % 4) * 16 + b[2] \div 16,
           (b[2] % 16) * 4 + b[3] \div 64, b[3] % 64>>
    ELSE IF Len(b) = 2
    THEN <<b[1] \div 4, (b[1] % 4) * 16 + b[2] \div 16, (b[2] % 16) * 4, Pad>>
    ELSE <<b[1] \div 4, (b[1] % 4) * 16, Pad, Pad>>

\* (mutant) only whole groups of three bytes are encoded
RECURSIVE toBase64WholeGroups(_)
toBase64WholeGroups(b) ==
    IF Len(b) < 3
    THEN <<>>
    ELSE Group(SubSeq(b, 1, 3)) \o toBase64WholeGroups(SubSeq(b, 4, Len(b)))

RECURSIVE toBase64(_)
toBase64(b) ==
    IF b = <<>>
    THEN <<>>
    ELSE IF Len(b) <= 3
    THEN Group(b)
    ELSE Group(SubSeq(b, 1, 3)) \o toBase64(SubSeq(b, 4, Len(b)))

\* `Buffer.from(payload, 'base64')`: the digits up to the first '=' are
\* decoded four to three bytes; two digits left over give one byte, three
\* give two
RECURSIVE BeforePad(_)
BeforePad(digits) ==
    IF digits = <<>> \/ Head(digits) = Pad
    THEN <<>>
    ELSE <<Head(digits)>> \o BeforePad(Tail(digits))

Ungroup(d) ==
    IF Len(d) = 4
    THEN <<d[1] * 4 + d[2] \div 16, (d[2] % 16) * 16 + d[3] \div 4,
           (d[3] % 4) * 64 + d[4]>>
    ELSE IF Len(d) = 3
    THEN <<d[1] * 4 + d[2] \div 16, (d[2] % 16) * 16 + d[3] \div 4>>
    ELSE IF Len(d) = 2
    THEN <<d[1] * 4 + d[2] \div 16>>
    ELSE <<>>

RECURSIVE Decode(_)
Decode(d) ==
    IF Len(d) <= 4
    THEN Ungroup(d)
    ELSE Ungroup(SubSeq(d, 1, 4)) \o Decode(SubSeq(d, 5, Len(d)))

fromBase64(digits) == Decode(BeforePad(digits))

\* the media event that carries a payload (MediaEventSchema, the fields
\* getRawMedia reads) and its accessor getRawMedia()
MediaEvent(payload) == [event |-> "media", media |-> [payload |-> payload]]
getRawMedia(event) == fromBase64(event.media.payload)

\* What a call of an action method did: the error it threw ("" when it
\* returned) and the messages it handed to ws.send.
Returned(messages) == [error |-> "", messages |-> messages]
Threw(error) == [error |-> error, messages |-> <<>>]

NotConnected == "WebSocket is not connected"
StreamIdNotAvailable == "Stream ID not available. Wait for the start event."

\* (mutant) playAudio throws on a socket that is not open
PlayAudioThrowsWhenClosed(state, contentType, sampleRate, payload) ==
    IF state # "OPEN"
    THEN Threw(NotConnected)
    ELSE Returned(<<[event |-> "playAudio",
                     media |-> [contentType |-> contentType,
                                sampleRate |-> sampleRate,
                                payload |-> toBase64(payload)]]>>)

\* (mutant) checkpoint does not look for a stream id
CheckpointWithoutStreamId(state, metadata, name) ==
    IF state # "OPEN"
    THEN Threw(NotConnected)
    ELSE Returned(<<[event |-> "checkpoint", streamId |-> metadata.streamId,
                     name |-> name]>>)

\* (mutant) clearAudio looks for the stream id before it looks at the socket
ClearAudioStreamIdFirst(state, metadata) ==
    IF metadata.streamId = Undefined
    THEN Threw(StreamIdNotAvailable)
    ELSE IF state # "OPEN"
    THEN Threw(NotConnected)
    ELSE Returned(<<[event |-> "clearAudio", streamId |-> metadata.streamId]>>)

\* playAudio(ws, contentType, sampleRate, payload)
PlayAudio(state, contentType, sampleRate, payload) ==
    IF state # "OPEN"
    THEN \* console.warn; return
         Returned(<<>>)
    ELSE Returned(<<[event |-> "playAudio",
                     media |-> [contentType |-> contentType,
                                sampleRate |-> sampleRate,
                                payload |-> toBase64(payload)]]>>)

\* checkpoint(ws, name); metadata is connectionMetadata.get(ws)
Checkpoint(state, metadata, name) ==
    IF state # "OPEN"
    THEN Threw(NotConnected)
    ELSE IF metadata.streamId = Undefined
    THEN Threw(StreamIdNotAvailable)
    ELSE Returned(<<[event |-> "checkpoint", streamId |-> metadata.streamId,
                     name |-> name]>>)

\* clearAudio(ws)
ClearAudio(state, metadata) ==
    IF state # "OPEN"
    THEN Threw(NotConnected)
    ELSE IF metadata.streamId = Undefined
    THEN Threw(StreamIdNotAvailable)
    ELSE Returned(<<[event |-> "clearAudio", streamId |-> metadata.streamId]>>)

\* (mutant) the message is written to every socket of the server
CommandToEverySocket(c, method, r) ==
    /\ sent' = [d \in Sockets |-> sent[d] \o r.messages]
    /\ commands' = [commands EXCEPT ![c] =
                       Append(commands[c], [method |-> method, error |-> r.error])]

\* the state a call r of an action method on c leaves
Command(c, method, r) ==
    /\ sent' = [sent EXCEPT ![c] = sent[c] \o r.messages]
    /\ commands' = [commands EXCEPT ![c] =
                       Append(commands[c], [method |-> method, error |-> r.error])]

\* The application calls an action method with a socket it was handed.
MayCommand(c) == ~uncaught /\ pc[c] # "idle" /\ Len(commands[c]) < MaxCommands

playAudio(c, contentType, sampleRate, payload) ==
    /\ MayCommand(c)
    /\ Command(c, "playAudio", PlayAudio(readyState[c], contentType, sampleRate, payload))
    /\ audio' = [audio EXCEPT ![c] = Append(audio[c], payload)]
    /\ UNCHANGED <<server, registries, connectionMetadata, socket, closure, trace,
                   uncaught, completed>>

checkpoint(c, name) ==
    /\ MayCommand(c)
    /\ Command(c, "checkpoint", Checkpoint(readyState[c], Metadata(c), name))
    /\ UNCHANGED <<server, registries, connectionMetadata, socket, closure, trace,
                   uncaught, audio, completed>>

clearAudio(c) ==
    /\ MayCommand(c)
    /\ Command(c, "clearAudio", ClearAudio(readyState[c], Metadata(c)))
    /\ UNCHANGED <<server, registries, connectionMetadata, socket, closure, trace,
                   uncaught, audio, completed>>

\* --------------------------------------------------------- specifications
\* The readiness gate on one connection of a server without signature
\* validation: connection, error, start and media listeners; a start, media
\* and a media event its schema rejects arriving before, while and after the
\* connection listeners settle.
GateInbound == {Data("object", "start", TRUE, StartA),
                Data("object", "media", TRUE, StartA),
                Data("object", "media", FALSE, StartA)}

InitGate == Init /\ ~validateSignatureEnabled /\ ~authToken

NextGate ==
    \/ onConnection \/ onStart \/ onMedia \/ onError
    \/ start
    \/ \E c \in Conns : Connection(c, PlainRequest)
    \/ \E c \in Conns, resolved \in BOOLEAN, T \in SUBSET Throwable : Settled(c, resolved, T)
    \/ \E c \in Conns, data \in GateInbound, T \in SUBSET Throwable : Message(c, data, T)

Spec == InitGate /\ [][NextGate]_vars

\* Malformed input on one connection: every kind of message the SDK cannot
\* interpret, and media, with connection, media and error listeners.
ErrorInbound == {Data("object", "media", TRUE, StartA),
                 Data("object", "media", FALSE, StartA)}
                \cup UnknownKind \cup NotAnObject

NextErrors ==
    \/ onConnection \/ onMedia \/ onError
    \/ start
    \/ \E c \in Conns : Connection(c, PlainRequest)
    \/ \E c \in Conns, resolved \in BOOLEAN, T \in SUBSET Throwable : Settled(c, resolved, T)
    \/ \E c \in Conns, data \in ErrorInbound, T \in SUBSET Throwable : Message(c, data, T)

SpecErrors == InitGate /\ [][NextErrors]_vars

\* Signature validation at accept: a server that validates, every shape of
\* request, and what the transport does with the socket afterwards.
SignatureInbound == {Data("object", "start", TRUE, StartA),
                     Data("malformed", "absent", FALSE, StartA)}

InitSignature == Init /\ validateSignatureEnabled

NextSignature ==
    \/ onConnection \/ onStart \/ onError \/ onClose
    \/ start
    \/ \E c \in Conns, req \in Requests : Connection(c, req)
    \/ \E c \in Conns, resolved \in BOOLEAN : Settled(c, resolved, {})
    \/ \E c \in Conns, data \in SignatureInbound : Message(c, data, {})
    \/ \E c \in Conns, data \in SignatureInbound : Unhandled(c, data)
    \/ \E c \in Conns : SocketClose(c, {})

SpecSignature == InitSignature /\ [][NextSignature]_vars

\* The metadata store on one connection: start events with two sets of
\* identifiers, a start event the schema rejects and media, with connection,
\* start and media listeners.
MetadataInbound == {Data("object", "start", TRUE, StartA),
                    Data("object", "start", TRUE, StartB),
                    Data("object", "start", FALSE, StartB),
                    Data("object", "media", TRUE, StartA)}

NextMetadata ==
    \/ onConnection \/ onStart \/ onMedia
    \/ start
    \/ \E c \in Conns : Connection(c, PlainRequest)
    \/ \E c \in Conns, resolved \in BOOLEAN : Settled(c, resolved, {})
    \/ \E c \in Conns, data \in MetadataInbound : Message(c, data, {})

SpecMetadata == InitGate /\ [][NextMetadata]_vars

\* The action methods on one connection: start events, connection
\* listeners that may fail, the transport closing,
\* and the three methods called at any point of the connection's life.
Payloads == {<<>>, <<77, 97>>}
Names == {"mark"}
OutboundInbound == {Data("object", "start", TRUE, StartA)}

NextOutbound ==
    \/ onConnection
    \/ start
    \/ \E c \in Conns : Connection(c, PlainRequest)
    \/ \E c \in Conns, resolved \in BOOLEAN : Settled(c, resolved, {})
    \/ \E c \in Conns, data \in OutboundInbound : Message(c, data, {})
    \/ \E c \in Conns : SocketClose(c, {})
    \/ \E c \in Conns, payload \in Payloads : playAudio(c, "audio/x-l16", 8000, payload)
    \/ \E c \in Conns, name \in Names : checkpoint(c, name)
    \/ \E c \in Conns : clearAudio(c)

SpecOutbound == InitGate /\ [][NextOutbound]_vars

\* Dispatch to the listeners of every kind on one connection that is ready
\* at once: a validated event of each of the five kinds, listeners of the
\* five kinds and error listeners, any of which may throw.
DispatchInbound == {Data("object", k, TRUE, StartA) : k \in EventKinds}

NextDispatch ==
    \/ onStart \/ onMedia \/ onDtmf \/ onPlayedStream \/ onClearedAudio \/ onError
    \/ start
    \/ \E c \in Conns : Connection(c, PlainRequest)
    \/ \E c \in Conns, data \in DispatchInbound, T \in SUBSET Throwable : Message(c, data, T)

SpecDispatch == InitGate /\ [][NextDispatch]_vars

\* The transport's own events on one connection: errors and the close,
\* while the connection listeners are pending, after they resolved and after
\* one failed, with connection, error and close listeners, any error or
\* close listener throwing.
TransportInbound == {Data("object", "media", TRUE, StartA),
                     Data("malformed", "absent", FALSE, StartA)}

NextTransport ==
    \/ onConnection \/ onError \/ onClose
    \/ start
    \/ \E c \in Conns : Connection(c, PlainRequest)
    \/ \E c \in Conns, resolved \in BOOLEAN, T \in SUBSET Throwable : Settled(c, resolved, T)
    \/ \E c \in Conns, data \in TransportInbound, T \in SUBSET Throwable : Message(c, data, T)
    \/ \E c \in Conns, T \in SUBSET Throwable : SocketError(c, T)
    \/ \E c \in Conns, T \in SUBSET Throwable : SocketClose(c, T)

SpecTransport == InitGate /\ [][NextTransport]_vars

\* Two connections of one server, with or without signature validation:
\* each is accepted or rejected, runs its connection listeners, receives a
\* start event or a message that is not JSON, and is closed, in every
\* interleaving; connection and error listeners, any of which may fail.
IsolationInbound == {Data("object", "start", TRUE, StartA),
                     Data("malformed", "absent", FALSE, StartA)}

NextIsolation ==
    \/ onConnection \/ onError
    \/ start
    \/ \E c \in Sockets, req \in {PlainRequest, SignedRequest} : Connection(c, req)
    \/ \E c \in Sockets, resolved \in BOOLEAN, T \in SUBSET Throwable : Settled(c, resolved, T)
    \/ \E c \in Sockets, data \in IsolationInbound, T \in SUBSET Throwable :
           Len(inbox[c]) < MaxInterleaved /\ Message(c, data, T)
    \/ \E c \in Sockets : SocketClose(c, {})
    \/ Exit

SpecIsolation == Init /\ [][NextIsolation]_vars

\* Every combination of options the constructor accepts, with a request
\* that carries no signature headers and one whose signature verifies.
NextConstruction ==
    \/ onConnection \/ onStart
    \/ start
    \/ \E c \in Conns, req \in {PlainRequest, SignedRequest} : Connection(c, req)
    \/ \E c \in Conns, resolved \in BOOLEAN : Settled(c, resolved, {})
    \/ \E c \in Conns, data \in SignatureInbound : Message(c, data, {})
    \/ \E c \in Conns, data \in SignatureInbound : Unhandled(c, data)

SpecConstruction == Init /\ [][NextConstruction]_vars

\* Calls of start() at any time of one connection's life: connection and
\* start listeners, a start and a media event, before, while and after the
\* connection listeners settle.
NextStart ==
    \/ onConnection \/ onStart
    \/ start \/ startAgain
    \/ \E c \in Conns : Connection(c, PlainRequest)
    \/ \E c \in Conns, resolved \in BOOLEAN : Settled(c, resolved, {})
    \/ \E c \in Conns, data \in GateInbound : Message(c, data, {})

SpecStart == InitGate /\ [][NextStart]_vars

\* The audio round trip: playAudio on one connection with every byte
\* sequence of up to MaxBytes bytes over four bit patterns, one call on
\* each connection.
ByteValues == {0, 90, 165, 255}
RawAudio == UNION {[1..n -> ByteValues] : n \in 0..MaxBytes}

NextRoundTrip ==
    \/ start
    \/ \E c \in Conns : Connection(c, PlainRequest)
    \/ \E c \in Conns : SocketClose(c, {})
    \/ \E c \in Conns, payload \in RawAudio :
           audio[c] = <<>> /\ playAudio(c, "audio/x-l16", 8000, payload)

SpecRoundTrip == InitGate /\ [][NextRoundTrip]_vars

\* What dispatch writes to the metadata store on one connection: validated
\* start events with two sets of identifiers, a start event the schema
\* rejects, a validated event of each other kind and a message of unknown
\* kind, buffered or dispatched at once, with connection listeners.
FrameInbound == {Data("object", "start", TRUE, StartA),
                 Data("object", "start", TRUE, StartB),
                 Data("object", "start", FALSE, StartB),
                 Data("object", "bogus", FALSE, StartB)}
                \cup {Data("object", k, TRUE, StartB) : k \in EventKinds \ {"start"}}

NextFrame ==
    \/ onConnection
    \/ start
    \/ \E c \in Conns : Connection(c, PlainRequest)
    \/ \E c \in Conns, resolved \in BOOLEAN : Settled(c, resolved, {})
    \/ \E c \in Conns, data \in FrameInbound : Message(c, data, {})

SpecFrame == InitGate /\ [][NextFrame]_vars

\* Asynchronous listeners on one connection: start and media listeners whose
\* work outlives the call, finishing in any order while further messages
\* arrive, buffered or dispatched at once; connection listeners.
AsyncInbound == {Data("object", "start", TRUE, StartA),
                 Data("object", "media", TRUE, StartA)}

NextAsync ==
    \/ onConnection \/ onStart \/ onMedia
    \/ start
    \/ \E c \in Conns : Connection(c, PlainRequest)
    \/ \E c \in Conns, resolved \in BOOLEAN : Settled(c, resolved, {})
    \/ \E c \in Conns, data \in AsyncInbound : Message(c, data, {})
    \/ \E c \in Conns : \E i \in DOMAIN trace[c] : ListenerCompletes(c, i)

SpecAsync == InitGate /\ [][NextAsync]_vars

\* Two connections of one server, each with its own run of the connection
\* listeners: either may stay suspended on a listener while the other
\* settles its own, becomes ready and receives start and media events.
LifecycleInbound == {Data("object", "start", TRUE, StartA),
                     Data("object", "media", TRUE, StartA)}

NextLifecycle ==
    \/ onConnection \/ onStart
    \/ start
    \/ \E c \in Sockets : Connection(c, PlainRequest)
    \/ \E c \in Sockets, resolved \in BOOLEAN : Settled(c, resolved, {})
    \/ \E c \in Sockets, data \in LifecycleInbound :
           Len(inbox[c]) < MaxInterleaved /\ Message(c, data, {})

SpecLifecycle == InitGate /\ [][NextLifecycle]_vars

\* Everything that happens on one connection, next to the action methods:
\* accept, connection listeners that may fail, a start event and a text
\* that is not JSON, buffered or dispatched at once, error listeners and
\* the close of the transport.
TrafficInbound == {Data("object", "start", TRUE, StartA),
                   Data("malformed", "absent", FALSE, StartA)}

NextTraffic ==
    \/ onConnection \/ onError
    \/ start
    \/ \E c \in Conns : Connection(c, PlainRequest)
    \/ \E c \in Conns, resolved \in BOOLEAN : Settled(c, resolved, {})
    \/ \E c \in Conns, data \in TrafficInbound :
           Len(inbox[c]) <= MaxInterleaved /\ Message(c, data, {})
    \/ \E c \in Conns : SocketClose(c, {})
    \/ \E c \in Conns : playAudio(c, "audio/x-l16", 8000, <<77, 97>>)
    \/ \E c \in Conns, name \in Names : checkpoint(c, name)
    \/ \E c \in Conns : clearAudio(c)

SpecTraffic == InitGate /\ [][NextTraffic]_vars

\* Two streams at once: two connections, each receiving start events with
\* either set of identifiers, and checkpoint and clearAudio called on either
\* socket at any time.
StreamInbound == {Data("object", "start", TRUE, StartA),
                  Data("object", "start", TRUE, StartB)}

NextStreams ==
    \/ start
    \/ \E c \in Sockets : Connection(c, PlainRequest)
    \/ \E c \in Sockets, data \in StreamInbound :
           Len(inbox[c]) <= MaxInterleaved /\ Message(c, data, {})
    \/ \E c \in Sockets, name \in Names :
           Len(commands[c]) < MaxInterleaved /\ checkpoint(c, name)
    \/ \E c \in Sockets : Len(commands[c]) < MaxInterleaved /\ clearAudio(c)

SpecStreams == InitGate /\ [][NextStreams]_vars

\* ==================================================================
\* The claims.
\* ==================================================================
\* the positions of trace[c] that are invocations of a start, media, dtmf,
\* playedStream or clearedAudio listener
ListenerCalls(c) == {i \in DOMAIN trace[c] : trace[c][i].op \in EventKinds}

\* the positions of trace[c] with an entry of kind op
Entries(c, op) == {i \in DOMAIN trace[c] : trace[c][i].op = op}

\* every registered connection listener has resolved before position i
AllResolvedBefore(c, i) ==
    \A k \in DOMAIN connectionCallbacks :
        \E j \in 1..(i - 1) :
            /\ trace[c][j].op = "settled"
            /\ trace[c][j].cb = connectionCallbacks[k]
            /\ ~trace[c][j].threw

\* a connection listener of c has failed
SetupListenerFailed(c) ==
    \E j \in Entries(c, "settled") : trace[c][j].threw

\* the invocations of event listeners on c, in the order they happened
ListenerTrace(c) == SelectSeq(trace[c], LAMBDA e : e.op \in EventKinds)

\* C1: no event listener (start, media, dtmf, playedStream, clearedAudio)
\* is invoked on a connection before every connection listener has
\* resolved, and event listeners are invoked in the receipt order of the
\* messages they are invoked for, whatever the kinds of the events.
C1_GatedAndInReceiptOrder ==
    \A c \in Conns :
        /\ \A i \in ListenerCalls(c) : AllResolvedBefore(c, i)
        /\ \A i, j \in ListenerCalls(c) :
               i < j => trace[c][i].n <= trace[c][j].n

\* start, media, media were buffered while a connection listener was
\* pending and have been replayed to their listeners as start, media, media
C1_Witness ==
    \E c \in Conns :
        /\ Len(connectionCallbacks) > 0
        /\ pc[c] = "done"
        /\ Len(messageBuffer[c]) = 3
        /\ Len(ListenerTrace(c)) = 3
        /\ \A k \in 1..3 : ListenerTrace(c)[k].n = k
        /\ ListenerTrace(c)[1].op = "start"
        /\ ListenerTrace(c)[2].op = "media"
        /\ ListenerTrace(c)[3].op = "media"

\* C3: once a connection listener has failed, the connection is not ready
\* and never becomes so, no message of it is passed to the dispatcher or to
\* an event listener, and the SDK has closed it with code 1011.
C3_FailedSetupNeverDispatches ==
    \A c \in Conns :
        SetupListenerFailed(c) =>
            /\ ~isReady[c]
            /\ pc[c] = "failed"
            /\ ListenerCalls(c) = {}
            /\ Entries(c, "dispatch") = {}
            /\ \E i \in Entries(c, "ws.close") : trace[c][i].code = InternalError
            /\ readyState[c] # "OPEN"

\* a connection listener failed with a start event in the buffer and a start
\* listener registered, and a message arrived after the failure
C3_Witness ==
    \E c \in Conns :
        /\ SetupListenerFailed(c)
        /\ Len(startCallbacks) > 0
        /\ \E k \in DOMAIN messageBuffer[c] :
               messageBuffer[c][k].event = "start" /\ messageBuffer[c][k].valid
        /\ \E i \in Entries(c, "message"), j \in Entries(c, "ws.close") : j < i
        /\ \E i \in Entries(c, "message"), j \in Entries(c, "ws.close") : i < j

\* C4: the failure of a connection listener is followed at once by a call
\* of every registered error listener with that failure, in registration
\* order, whether or not one of them throws, and only then by the close
\* with code 1011.
C4_ErrorListenersThenClose ==
    \A c \in Conns :
        \A j \in Entries(c, "settled") :
            trace[c][j].threw =>
                /\ Len(trace[c]) >= j + Len(errorCallbacks) + 1
                /\ \A k \in DOMAIN errorCallbacks :
                       /\ trace[c][j + k].op = "error"
                       /\ trace[c][j + k].cb = errorCallbacks[k]
                       /\ trace[c][j + k].err = "Connection callback failed"
                /\ trace[c][j + Len(errorCallbacks) + 1] = CloseCall(InternalError)

\* a connection listener failed, the first of two error listeners threw
\* and the second was still called before the close
C4_Witness ==
    \E c \in Conns :
        \E j \in Entries(c, "settled") :
            /\ trace[c][j].threw
            /\ Len(errorCallbacks) = 2
            /\ trace[c][j + 1].op = "error" /\ trace[c][j + 1].threw
            /\ trace[c][j + 2].op = "error" /\ ~trace[c][j + 2].threw
            /\ trace[c][j + 3].op = "ws.close"

\* the calls and settlings of connection listeners on c, in order
SetupTrace(c) == SelectSeq(trace[c], LAMBDA e : e.op \in {"connection", "settled"})

\* C5: the connection listeners are called in registration order, each
\* only after the one before it has resolved, each at most once, and none
\* after one has failed.
C5_SequentialInRegistrationOrder ==
    \A c \in Conns :
        /\ Len(SetupTrace(c)) <= 2 * Len(connectionCallbacks)
        /\ \A i \in DOMAIN SetupTrace(c) :
               /\ SetupTrace(c)[i].cb = connectionCallbacks[(i + 1) \div 2]
               /\ SetupTrace(c)[i].op = IF i % 2 = 1 THEN "connection" ELSE "settled"
               /\ SetupTrace(c)[i].threw => i = Len(SetupTrace(c))

\* two connection listeners ran one after the other, with a message
\* received while the first was pending
C5_Witness ==
    \E c \in Conns :
        /\ Len(connectionCallbacks) = 2
        /\ Len(SetupTrace(c)) = 4
        /\ ~SetupTrace(c)[4].threw
        /\ \E i \in Entries(c, "message"), j \in Entries(c, "settled") : i < j

\* the request of c lacks a signature header or a nonce header, or the
\* verifier rejects it or throws
SignatureInvalid(c) ==
    \/ ~request[c].signature
    \/ ~request[c].nonce
    \/ request[c].verifier # "true"

\* C6: with signature validation enabled, a connection whose request fails
\* validation is closed with code 1008 and nothing else ever happens on it:
\* no metadata entry, no listener call of any kind, nothing buffered,
\* nothing dispatched.
C6_InvalidSignatureClosedFirst ==
    \A c \in Conns :
        (validateSignatureEnabled /\ pc[c] # "idle" /\ SignatureInvalid(c)) =>
            /\ trace[c] = <<CloseCall(PolicyViolation)>>
            /\ c \notin DOMAIN connectionMetadata
            /\ messageBuffer[c] = <<>>
            /\ ~isReady[c]
            /\ pc[c] = "rejected"
            /\ readyState[c] # "OPEN"

\* a request whose verifier throws was rejected on a server with connection,
\* error and close listeners; the peer still sent a message and the
\* transport then closed
C6_Witness ==
    \E c \in Conns :
        /\ validateSignatureEnabled
        /\ pc[c] = "rejected"
        /\ request[c] = [signature |-> TRUE, nonce |-> TRUE, verifier |-> "throws"]
        /\ Len(connectionCallbacks) > 0 /\ Len(errorCallbacks) > 0 /\ Len(closeCallbacks) > 0
        /\ Len(inbox[c]) > 0
        /\ readyState[c] = "CLOSED"

\* how many times the n-th message of c was passed to handleIncomingEvent
DispatchCount(c, n) ==
    Cardinality({i \in Entries(c, "dispatch") : trace[c][i].n = n})

\* the n-th message of c is in the buffer
Buffered(c, n) == \E k \in DOMAIN messageBuffer[c] : messageBuffer[c][k].n = n

\* a message the SDK cannot interpret: malformed JSON, not an object, no or
\* an unknown discriminator, or rejected by the schema of its kind
IsMalformed(m) == m.syntax # "object" \/ m.event \notin EventKinds \/ ~m.valid

\* C2 (as claimed): once the connection is ready, every message that was
\* buffered has been passed to the dispatcher exactly once, and every
\* message received since is not in the buffer and has been passed to the
\* dispatcher exactly once.
C2_BufferedDispatchedExactlyOnce ==
    \A c \in Conns :
        isReady[c] =>
            /\ \A n \in DOMAIN inbox[c] :
                   Buffered(c, n) => DispatchCount(c, n) = 1
            /\ \A n \in DOMAIN inbox[c] :
                   (inbox[c][n].syntax # "malformed" /\ ~Buffered(c, n))
                       => DispatchCount(c, n) = 1

\* the n-th message of c has been looked at: JSON.parse failed on it, or it
\* was passed to the dispatcher
Processed(c, n) == inbox[c][n].syntax = "malformed" \/ DispatchCount(c, n) > 0

\* C9 (as claimed): for every malformed message the SDK has processed,
\* every registered error listener was called for it, no event listener was,
\* and the SDK has not closed the connection (it closes one only when a
\* connection listener failed).
C9_MalformedReportedNotFatal ==
    \A c \in Conns :
        \A n \in DOMAIN inbox[c] :
            (IsMalformed(inbox[c][n]) /\ Processed(c, n)) =>
                /\ \A k \in DOMAIN errorCallbacks :
                       \E i \in Entries(c, "error") :
                           trace[c][i].n = n /\ trace[c][i].cb = errorCallbacks[k]
                /\ \A i \in ListenerCalls(c) : trace[c][i].n # n
                /\ (Entries(c, "ws.close") # {} => SetupListenerFailed(c))

\* C10 (as claimed): a well-formed message received after a malformed one
\* is in the buffer while the connection is not ready and has been passed
\* to the dispatcher once it is ready.
C10_ParseFailureIsolated ==
    \A c \in Conns :
        \A j, k \in DOMAIN inbox[c] :
            (j < k /\ IsMalformed(inbox[c][j]) /\ ~IsMalformed(inbox[c][k])) =>
                IF isReady[c]
                THEN DispatchCount(c, k) = 1
                ELSE Buffered(c, k)

\* C7 (as claimed): once a start event has populated the metadata of a
\* connection, no step changes it.
C7_MetadataWrittenOnce ==
    [][\A c \in Conns :
          getStreamId(c) # Undefined => Metadata(c)' = Metadata(c)]_vars

\* a validated start event of c has been passed to the dispatcher
StartProcessed(c) ==
    \E i \in Entries(c, "dispatch") :
        inbox[c][trace[c][i].n].event = "start" /\ inbox[c][trace[c][i].n].valid

\* C8 (as claimed): every start listener call saw, through the accessors,
\* the identifiers of the start event it was called for, the accessors
\* return those identifiers at any later time, and they return undefined
\* while no start event has been processed.
C8_StartValuesSeenAndKept ==
    \A c \in Conns :
        /\ \A i \in Entries(c, "start") :
               /\ trace[c][i].seen = StartMetadata(inbox[c][trace[c][i].n])
               /\ Metadata(c) = StartMetadata(inbox[c][trace[c][i].n])
        /\ ~StartProcessed(c) => Metadata(c) = NoMetadata

\* this step is a call of action method m on c
Called(c, m) ==
    /\ commands'[c] # commands[c]
    /\ commands'[c][Len(commands'[c])].method = m

\* the error the call of this step threw, "" if it returned
Raised(c) == commands'[c][Len(commands'[c])].error

\* this step wrote exactly the message e to the transport of c
WroteOne(c, e) == sent'[c] = Append(sent[c], e)

\* this step wrote nothing to the transport of c
WroteNothing(c) == sent'[c] = sent[c]

\* the message this step left last on the transport of c
LastSent(c) == sent'[c][Len(sent'[c])]

\* C11: a call of checkpoint or clearAudio on an open connection throws a
\* precondition error and writes nothing while no start event has been
\* processed for the connection; once one has been, the call returns and
\* writes exactly one message, {event, streamId, name} for checkpoint and
\* {event, streamId} for clearAudio, with the streamId of the connection's
\* metadata.
C11_StreamCommandsNeedStart ==
    [][\A c \in Conns :
          /\ (Called(c, "checkpoint") /\ readyState[c] = "OPEN") =>
                 IF ~StartProcessed(c)
                 THEN Raised(c) \in {NotConnected, StreamIdNotAvailable} /\ WroteNothing(c)
                 ELSE /\ Raised(c) = ""
                      /\ \E name \in Names :
                             WroteOne(c, [event |-> "checkpoint",
                                          streamId |-> getStreamId(c), name |-> name])
          /\ (Called(c, "clearAudio") /\ readyState[c] = "OPEN") =>
                 IF ~StartProcessed(c)
                 THEN Raised(c) \in {NotConnected, StreamIdNotAvailable} /\ WroteNothing(c)
                 ELSE /\ Raised(c) = ""
                      /\ WroteOne(c, [event |-> "clearAudio",
                                      streamId |-> getStreamId(c)])]_vars

\* on an open connection checkpoint threw before the start event and wrote
\* the checkpoint of stream A after it
C11_Witness ==
    \E c \in Conns :
        /\ readyState[c] = "OPEN"
        /\ commands[c] = <<[method |-> "checkpoint", error |-> StreamIdNotAvailable],
                           [method |-> "checkpoint", error |-> ""]>>
        /\ sent[c] = <<[event |-> "checkpoint", streamId |-> StartA.streamId,
                        name |-> "mark"]>>

\* C12: a call of checkpoint or clearAudio on a connection that is not open
\* throws 'WebSocket is not connected' and writes nothing, whether or not a
\* streamId is known; it throws 'Stream ID not available' only on an open
\* connection for which no start event has been processed.
C12_PreconditionErrorNamesRequirement ==
    [][\A c \in Conns :
          (Called(c, "checkpoint") \/ Called(c, "clearAudio")) =>
              /\ readyState[c] # "OPEN" =>
                     Raised(c) = NotConnected /\ WroteNothing(c)
              /\ Raised(c) = NotConnected => readyState[c] # "OPEN"
              /\ Raised(c) = StreamIdNotAvailable =>
                     readyState[c] = "OPEN" /\ ~StartProcessed(c)]_vars

\* the transport closed after a start event was processed, and clearAudio
\* and checkpoint then threw 'WebSocket is not connected'
C12_Witness ==
    \E c \in Conns :
        /\ readyState[c] = "CLOSED"
        /\ getStreamId(c) # Undefined
        /\ commands[c] = <<[method |-> "clearAudio", error |-> NotConnected],
                           [method |-> "checkpoint", error |-> NotConnected]>>
        /\ sent[c] = <<>>

\* C13: a call of playAudio on a connection that is not open returns
\* without an error and writes nothing; on an open connection it returns
\* and writes exactly one playAudio message, whether or not a start event
\* has been processed.
C13_PlayAudioNeverThrows ==
    [][\A c \in Conns :
          Called(c, "playAudio") =>
              /\ Raised(c) = ""
              /\ IF readyState[c] # "OPEN"
                 THEN WroteNothing(c)
                 ELSE /\ Len(sent'[c]) = Len(sent[c]) + 1
                      /\ SubSeq(sent'[c], 1, Len(sent[c])) = sent[c]
                      /\ LastSent(c).event = "playAudio"
                      /\ DOMAIN LastSent(c) = {"event", "media"}]_vars

\* playAudio wrote one message on an open connection before any start event
\* and, after the SDK closed the connection, returned without writing
C13_Witness ==
    \E c \in Conns :
        /\ readyState[c] = "CLOSING"
        /\ ~StartProcessed(c)
        /\ commands[c] = <<[method |-> "playAudio", error |-> ""],
                           [method |-> "playAudio", error |-> ""]>>
        /\ Len(sent[c]) = 1
        /\ sent[c][1].event = "playAudio"

\* the n-th message of c is an event of one of the five kinds that its
\* schema accepts
ValidEvent(c, n) == inbox[c][n].event \in EventKinds /\ inbox[c][n].valid

\* the listener calls made for the n-th message of c, in the order made
CallsFor(c, n) == SelectSeq(trace[c], LAMBDA e : e.op \in EventKinds /\ e.n = n)

\* every validated event that was dispatched on c had the listeners of its
\* kind called, all of them and in the order of the registry
AllInvokedInOrder(c) ==
    \A i \in Entries(c, "dispatch") :
        ValidEvent(c, trace[c][i].n) =>
            /\ Len(CallsFor(c, trace[c][i].n)) = Len(Registry(inbox[c][trace[c][i].n].event))
            /\ \A k \in DOMAIN CallsFor(c, trace[c][i].n) :
                   /\ CallsFor(c, trace[c][i].n)[k].op = inbox[c][trace[c][i].n].event
                   /\ CallsFor(c, trace[c][i].n)[k].cb
                          = Registry(inbox[c][trace[c][i].n].event)[k]

\* a step leaves the registry as it was or adds one listener at its end
AppendsOnly(before, after) ==
    \/ after = before
    \/ Len(after) = Len(before) + 1 /\ SubSeq(after, 1, Len(before)) = before

\* C14 (as claimed): every step leaves each registry as it was or appends
\* one listener to it, and every dispatched event of a kind has had all the
\* listeners registered for the kind called, in registration order.
C14_AllListenersInRegistrationOrder ==
    [][/\ \A k \in EventKinds : AppendsOnly(Registry(k), Registry(k)')
       /\ AppendsOnly(connectionCallbacks, connectionCallbacks')
       /\ AppendsOnly(errorCallbacks, errorCallbacks')
       /\ AppendsOnly(closeCallbacks, closeCallbacks')
       /\ \A c \in Conns : AllInvokedInOrder(c)']_vars

\* C15 (as claimed): when a start, media, dtmf, playedStream or
\* clearedAudio listener throws during the dispatch of an event, every
\* listener registered after it for that kind is still called for that
\* event.
C15_ListenerFailureCaughtIndividually ==
    \A c \in Conns :
        \A i \in ListenerCalls(c) :
            trace[c][i].threw =>
                \A k \in DOMAIN Registry(trace[c][i].op) :
                    Registry(trace[c][i].op)[k] > trace[c][i].cb =>
                        \E j \in ListenerCalls(c) :
                            /\ j > i
                            /\ trace[c][j].op = trace[c][i].op
                            /\ trace[c][j].n = trace[c][i].n
                            /\ trace[c][j].cb = Registry(trace[c][i].op)[k]

\* an event listener threw while the n-th message of c was dispatched
ListenerThrewFor(c, n) ==
    \E i \in ListenerCalls(c) : trace[c][i].n = n /\ trace[c][i].threw

\* k is the first well-formed message of c received after the n-th
NextWellFormed(c, n, k) ==
    /\ k > n
    /\ ~IsMalformed(inbox[c][k])
    /\ \A j \in (n + 1)..(k - 1) : IsMalformed(inbox[c][j])

\* the n-th message of c reached its listeners: each listener of its kind
\* was called for it, up to one that threw
ReachedListeners(c, n) ==
    \/ ListenerThrewFor(c, n)
    \/ Len(CallsFor(c, n)) = Len(Registry(inbox[c][n].event))

\* C16 (as claimed): when an event listener has thrown during the dispatch
\* of a message, the SDK does not close the connection (it closes one only
\* when a connection listener failed), and the next well-formed message of
\* the connection is passed to the dispatcher and to its listeners.
C16_ListenerFailureLeavesConnection ==
    \A c \in Conns :
        \A n \in DOMAIN inbox[c] :
            ListenerThrewFor(c, n) =>
                /\ (Entries(c, "ws.close") # {} => SetupListenerFailed(c))
                /\ \A k \in DOMAIN inbox[c] :
                       NextWellFormed(c, n, k) =>
                           DispatchCount(c, k) = 1 /\ ReachedListeners(c, k)

\* the close listener calls on c, in the order made
CloseTrace(c) == SelectSeq(trace[c], LAMBDA e : e.op = "close")

\* C17 (as claimed): once the transport has closed a connection that passed
\* the accept path, every registered close listener has been called for it,
\* in registration order, whether the connection was inside the readiness
\* gate, ready or failed.
C17_CloseInvokesAllCloseListeners ==
    \A c \in Conns :
        (readyState[c] = "CLOSED" /\ Attached(c)) =>
            /\ Len(CloseTrace(c)) = Len(closeCallbacks)
            /\ \A k \in DOMAIN closeCallbacks : CloseTrace(c)[k].cb = closeCallbacks[k]

\* an exception of an error listener has left a handler of the SDK on c
ErrorListenerEscaped(c) ==
    /\ uncaught
    /\ trace[c] # <<>>
    /\ trace[c][Len(trace[c])].op = "error"
    /\ trace[c][Len(trace[c])].threw

\* C18 (as claimed): a transport error on a connection is followed by a
\* call of every registered error listener, in registration order; and when
\* an error listener throws during any error notification, the exception
\* does not leave the SDK's handler and every error listener registered
\* after it is still called with the same error.
C18_ErrorListenerExceptionsSwallowed ==
    \A c \in Conns :
        /\ ~ErrorListenerEscaped(c)
        /\ \A i \in Entries(c, "ws.error") :
               /\ Len(trace[c]) >= i + Len(errorCallbacks)
               /\ \A k \in DOMAIN errorCallbacks :
                      /\ trace[c][i + k].op = "error"
                      /\ trace[c][i + k].cb = errorCallbacks[k]
                      /\ trace[c][i + k].err = "WebSocket error occurred"
        /\ \A i \in Entries(c, "error") :
               trace[c][i].threw =>
                   \A k \in DOMAIN errorCallbacks :
                       errorCallbacks[k] > trace[c][i].cb =>
                           \E j \in Entries(c, "error") :
                               /\ j > i
                               /\ trace[c][j].cb = errorCallbacks[k]
                               /\ trace[c][j].err = trace[c][i].err
                               /\ trace[c][j].n = trace[c][i].n

\* the state of connection b that is its own: its metadata, its message
\* buffer, its readiness flag and whether it is open
Own(b) ==
    <<b \in DOMAIN connectionMetadata, Metadata(b), messageBuffer[b], isReady[b],
      readyState[b]>>

\* this step is an event of connection a: something was received, called or
\* closed on it
EventOn(a) ==
    \/ trace'[a] # trace[a]
    \/ inbox'[a] # inbox[a]
    \/ pc'[a] # pc[a]
    \/ readyState'[a] # readyState[a]

\* C19 (as claimed): a step that is an event of one connection (its accept
\* or rejection, the failure of its connection listener, a message it cannot
\* parse, a failing listener, its close) leaves the metadata, the message
\* buffer, the readiness flag and the open/closed state of every other
\* connection unchanged.
C19_ConnectionsIsolated ==
    [][\A a, b \in Sockets :
          (a # b /\ EventOn(a)) => Own(b)' = Own(b)]_vars

\* C20: no connection is accepted or processed by a server constructed with
\* signature validation enabled and no auth token, for no such server
\* exists; and a server with validation disabled rejects no connection,
\* whatever signature headers its request carries.
C20_ValidationNeedsToken ==
    \A c \in Conns :
        /\ pc[c] # "idle" => ~(validateSignatureEnabled /\ ~authToken)
        /\ (~validateSignatureEnabled /\ pc[c] # "idle") =>
               /\ Attached(c)
               /\ c \in DOMAIN connectionMetadata
               /\ \A i \in Entries(c, "ws.close") : trace[c][i].code # PolicyViolation

\* a server without validation accepted a request without signature
\* headers and dispatched its start event
C20_Witness ==
    \E c \in Conns :
        /\ ~validateSignatureEnabled
        /\ SignatureInvalid(c)
        /\ pc[c] = "done"
        /\ StartProcessed(c)
        /\ Len(startCallbacks) > 0

\* the calls of connection listener cb on c
ConnectionCalls(c, cb) ==
    {i \in Entries(c, "connection") : trace[c][i].cb = cb}

\* C21: while start() has not been called no listener is invoked and
\* nothing happens on any connection; the first call of start() returns and
\* every later one throws, and one 'connection' handler is installed however
\* often start() is called; each connection listener is invoked at most once
\* for a connection and each message is passed to the dispatcher at most
\* once.
C21_StartedOnce ==
    /\ handlers = (IF isStarted THEN 1 ELSE 0)
    /\ isStarted = (starts # <<>>)
    /\ \A k \in DOMAIN starts : starts[k] = (IF k = 1 THEN "" ELSE AlreadyStarted)
    /\ \A c \in Conns :
           /\ ~isStarted => trace[c] = <<>> /\ pc[c] = "idle" /\ inbox[c] = <<>>
           /\ \A k \in DOMAIN connectionCallbacks :
                  Cardinality(ConnectionCalls(c, connectionCallbacks[k])) <= 1
           /\ \A n \in DOMAIN inbox[c] : DispatchCount(c, n) <= 1

\* start() was called a second time while a connection listener was
\* pending; the listener then resolved and the buffered start event was
\* dispatched once to the start listener
C21_Witness ==
    \E c \in Conns :
        /\ starts = <<"", AlreadyStarted>>
        /\ Len(connectionCallbacks) = 1
        /\ Cardinality(ConnectionCalls(c, connectionCallbacks[1])) = 1
        /\ pc[c] = "done"
        /\ Len(messageBuffer[c]) > 0
        /\ Entries(c, "start") # {}
        /\ \A n \in DOMAIN inbox[c] : DispatchCount(c, n) = 1

\* C22: the payload that a call of playAudio writes for a byte sequence,
\* carried as the payload of a media event, is decoded by the event's
\* getRawMedia() to that byte sequence; getRawMedia() is a function of the
\* payload alone, so every call of it returns the same bytes.
C22_AudioRoundTrip ==
    [][\A c \in Conns :
          (Called(c, "playAudio") /\ readyState[c] = "OPEN") =>
              /\ Len(sent'[c]) = Len(sent[c]) + 1
              /\ getRawMedia(MediaEvent(LastSent(c).media.payload))
                     = audio'[c][Len(audio'[c])]]_vars

\* the four bytes 0, 90, 165, 255 were written as the base64 digits of
\* "AFqlPw==" (one whole group and one byte, padded)
C22_Witness ==
    \E c \in Conns :
        /\ audio[c] = <<<<0, 90, 165, 255>>>>
        /\ Len(sent[c]) = 1
        /\ sent[c][1].media.payload = <<0, 5, 42, 37, 63, 48, Pad, Pad>>


\* the positions of trace[c] that are invocations of a listener for one of
\* the peer's messages: an event listener, or an error listener told of a
\* message (n is the receipt number of that message)
MessageListenerCalls(c) ==
    {i \in DOMAIN trace[c] :
        trace[c][i].op \in EventKinds \cup {"error"} /\ trace[c][i].n > 0}

\* C23 (as claimed): no listener, event listener or error listener, is
\* invoked for a message of a connection before every connection listener
\* has resolved, and the listener invocations for a connection's messages,
\* error notifications included, happen in the receipt order of the
\* messages.
C23_BufferedUninterpreted ==
    \A c \in Conns :
        /\ \A i \in MessageListenerCalls(c) : AllResolvedBefore(c, i)
        /\ \A i, j \in MessageListenerCalls(c) :
               i < j => trace[c][i].n <= trace[c][j].n


\* the positions of trace'[c] that the step added and that are calls of
\* handleIncomingEvent with a start event its schema accepts
StartsDispatched(c) ==
    {i \in (Len(trace[c]) + 1)..Len(trace'[c]) :
        /\ trace'[c][i].op = "dispatch"
        /\ inbox'[c][trace'[c][i].n].event = "start"
        /\ inbox'[c][trace'[c][i].n].valid}

\* the last position of a non-empty set of positions
Last(positions) == CHOOSE i \in positions : \A j \in positions : j <= i

\* C24: a step changes the metadata of a connection (streamId, accountId,
\* callId, headers) only by dispatching a start event that its schema
\* accepts, and then to the identifiers of that event; a step that
\* dispatches only media, dtmf, playedStream or clearedAudio events,
\* messages of unknown kind or start events the schema rejects leaves the
\* metadata as it was.
C24_OnlyValidStartWritesMetadata ==
    [][\A c \in Conns :
          IF StartsDispatched(c) = {}
          THEN Metadata(c)' = Metadata(c)
          ELSE Metadata(c)' =
                   StartMetadata(inbox'[c][trace'[c][Last(StartsDispatched(c))].n])]_vars

\* start A was dispatched, then a start event the schema rejects and a
\* validated dtmf event, both carrying the identifiers of B: the metadata
\* is that of A
C24_Witness ==
    \E c \in Conns :
        /\ Len(inbox[c]) = 3
        /\ inbox[c][1] = Frame(1, Data("object", "start", TRUE, StartA))
        /\ inbox[c][2] = Frame(2, Data("object", "start", FALSE, StartB))
        /\ inbox[c][3] = Frame(3, Data("object", "dtmf", TRUE, StartB))
        /\ \A n \in 1..3 : DispatchCount(c, n) = 1
        /\ Metadata(c) = StartMetadata(Data("object", "start", TRUE, StartA))


\* the event listener invocations of c are in the receipt order of their
\* messages: every invocation for message k precedes every invocation for
\* message k+1
InvokedInReceiptOrder(c) ==
    \A i, j \in ListenerCalls(c) : i < j => trace[c][i].n <= trace[c][j].n

\* the step received a message on c
Received(c) == Len(inbox'[c]) = Len(inbox[c]) + 1

\* the step passed the message it received on c to handleIncomingEvent
DispatchedOnReceipt(c) ==
    \E i \in (Len(trace[c]) + 1)..Len(trace'[c]) :
        trace'[c][i].op = "dispatch" /\ trace'[c][i].n = Len(inbox'[c])

\* C25: a message received on a ready connection is dispatched in the step
\* that receives it, whether or not asynchronous work started by listeners
\* for earlier messages is still pending, and the event listener
\* invocations of a connection stay in receipt order: all invocations for
\* message k happen before any invocation for message k+1.
C25_NoWaitOrderPreserved ==
    [][\A c \in Conns :
          /\ InvokedInReceiptOrder(c)'
          /\ (Received(c) /\ isReady[c]) => DispatchedOnReceipt(c)]_vars

\* the listener called for message 1 is still at work, the listener called
\* after it for message 2 has finished
C25_Witness ==
    \E c \in Conns :
        \E i, j \in ListenerCalls(c) :
            /\ i < j
            /\ trace[c][i].n = 1 /\ trace[c][j].n = 2
            /\ i \in Pending(c)
            /\ j \in completed[c]


\* the step is the resolution of the last connection listener of c
LastListenerResolved(c) ==
    /\ pc[c] = "await"
    /\ cbIndex[c] = Len(connectionCallbacks)
    /\ Len(trace'[c]) > Len(trace[c])
    /\ trace'[c][Len(trace[c]) + 1].op = "settled"
    /\ ~trace'[c][Len(trace[c]) + 1].threw

\* the lifecycle of d: the position of its handler, its readiness, its
\* buffer and what has happened on it
Lifecycle(d) == <<pc[d], cbIndex[d], isReady[d], messageBuffer[d], trace[d]>>

\* C26: each connection runs its own lifecycle, whatever the state of the
\* other connection (suspended on a connection listener or not): the
\* resolution of its last connection listener makes it ready and replays
\* its buffer in that step, a message it receives when ready is dispatched
\* in the step that receives it, and a step of one connection leaves the
\* lifecycle of the other as it was.
C26_IndependentLifecycles ==
    [][\A c \in Sockets :
          /\ LastListenerResolved(c) =>
                 /\ isReady'[c]
                 /\ \A n \in DOMAIN inbox[c] : DispatchCount(c, n)' = 1
          /\ (Received(c) /\ isReady[c]) => DispatchedOnReceipt(c)
          /\ \A d \in Sockets \ {c} :
                 trace'[c] # trace[c] => Lifecycle(d)' = Lifecycle(d)]_vars

\* ws1 is still suspended on its first connection listener with a message
\* in its buffer, while ws2 has completed both connection listeners, is
\* ready and has had its start event dispatched to the start listener
C26_Witness ==
    /\ Len(connectionCallbacks) = 2
    /\ pc["ws1"] = "await" /\ cbIndex["ws1"] = 1
    /\ Len(messageBuffer["ws1"]) = 1
    /\ pc["ws2"] = "done" /\ isReady["ws2"]
    /\ Len(inbox["ws2"]) = 1
    /\ \E i \in Entries("ws2", "start") : trace["ws2"][i].n = 1


\* the step is a call of an action method on c
Commanded(c) == commands'[c] # commands[c]

\* C27: the transport of a socket is written to only by a step that is a
\* call of playAudio, checkpoint or clearAudio on that socket; a call that
\* finds the socket open and returns writes exactly one message, of the
\* kind of the method, after those already written, a call that throws or
\* finds the socket not open writes nothing; every other step (accept,
\* connection listeners, buffering, dispatch, error notification, close)
\* writes nothing to any socket.
C27_WritesOnlyOnCommand ==
    [][\A c \in Sockets :
          IF Commanded(c) /\ Raised(c) = "" /\ readyState[c] = "OPEN"
          THEN /\ Len(sent'[c]) = Len(sent[c]) + 1
               /\ WroteOne(c, LastSent(c))
               /\ LastSent(c).event = commands'[c][Len(commands'[c])].method
          ELSE WroteNothing(c)]_vars

\* a start event was buffered and replayed, a text that is not JSON was
\* reported to the error listener, and
\* the two calls of action methods are the two messages on the transport
C27_Witness ==
    \E c \in Conns :
        /\ pc[c] = "done"
        /\ Len(messageBuffer[c]) = 1
        /\ \E i \in Entries(c, "error") : trace[c][i].err = "Failed to parse message"
        /\ Len(commands[c]) = 2
        /\ \A k \in 1..2 : commands[c][k].error = ""
        /\ Len(sent[c]) = 2
        /\ sent[c][1].event = "checkpoint"
        /\ sent[c][2].event = "playAudio"


\* C28 (as claimed): once the close listeners of a connection have been
\* invoked, no step invokes a start, media, dtmf, playedStream or
\* clearedAudio listener for it or changes its metadata.
C28_NothingAfterClose ==
    [][\A c \in Conns :
          Entries(c, "close") # {} =>
              /\ ListenerCalls(c)' = ListenerCalls(c)
              /\ Metadata(c)' = Metadata(c)]_vars


\* the SDK has closed c with code 1011
ClosedAsSetupFailed(c) ==
    \E i \in Entries(c, "ws.close") : trace[c][i].code = InternalError

\* C29 (as claimed): the SDK has closed a connection with code 1011 only
\* if one of its connection listeners failed, and on a connection that is
\* ready every buffered message has been passed to the dispatcher, none
\* skipped.
C29_SetupCloseOnlyOnListenerFailure ==
    \A c \in Conns :
        /\ ClosedAsSetupFailed(c) => SetupListenerFailed(c)
        /\ isReady[c] =>
               \A k \in DOMAIN messageBuffer[c] :
                   DispatchCount(c, messageBuffer[c][k].n) = 1


\* the start events of c that its schema accepts and that have been passed
\* to the dispatcher, by receipt number
StartsProcessed(c) ==
    {n \in DOMAIN inbox[c] :
        inbox[c][n].event = "start" /\ inbox[c][n].valid /\ DispatchCount(c, n) > 0}

\* C30: with two connections open, a message that checkpoint or clearAudio
\* writes on a socket carries the streamId of the start event last
\* dispatched on that same socket, whatever start events the other socket
\* has received and however the start events and the calls interleave.
C30_StreamIdOfOwnConnection ==
    [][\A c \in Sockets :
          ((Called(c, "checkpoint") \/ Called(c, "clearAudio")) /\ ~WroteNothing(c)) =>
              /\ StartsProcessed(c) # {}
              /\ LastSent(c).streamId = inbox[c][Last(StartsProcessed(c))].start.streamId]_vars

\* ws1 received start A and ws2 start B; checkpoint on ws1 wrote stream-A
\* and clearAudio on ws2 wrote stream-B
C30_Witness ==
    /\ inbox["ws1"] = <<Frame(1, Data("object", "start", TRUE, StartA))>>
    /\ inbox["ws2"] = <<Frame(1, Data("object", "start", TRUE, StartB))>>
    /\ sent["ws1"] = <<[event |-> "checkpoint", streamId |-> "stream-A", name |-> "mark"]>>
    /\ sent["ws2"] = <<[event |-> "clearAudio", streamId |-> "stream-B"]>>

====
